---- MODULE Spec2Model ----
(***************************************************************************)
(* Model of bonefish_species_identifier.py: run_blast, parse_blast_result  *)
(* and main().  Text is modelled as sequences of one-character strings so  *)
(* that strip/split/float/endswith/format are computed, not assumed.       *)
(***************************************************************************)
EXTENDS Integers, Sequences, FiniteSets, TLC

(* ---------------- bounds of the model ---------------- *)
MaxFiles == 2        \* longest directory listing explored
MaxDbs == 2          \* longest --databases argument list explored
MaxRows == 2         \* most rows in a tabular input handed to the parser
MaxFields == 4       \* most fields in a row handed to the parser

(* ---------------- text helpers (Python str methods) ---------------- *)
Whitespace == {" ", "\t", "\n", "\r"}

DigitChars == <<"0", "1", "2", "3", "4", "5", "6", "7", "8", "9">>

IsDigit(c) == \E n \in 1..10 : DigitChars[n] = c

DigitVal(c) == (CHOOSE n \in 1..10 : DigitChars[n] = c) - 1

RECURSIVE LStrip(_)
LStrip(s) == IF s # <<>> /\ Head(s) \in Whitespace THEN LStrip(Tail(s)) ELSE s

RECURSIVE RStrip(_)
RStrip(s) ==
    IF s # <<>> /\ s[Len(s)] \in Whitespace
    THEN RStrip(SubSeq(s, 1, Len(s) - 1))
    ELSE s

\* str.strip(): drops leading and trailing whitespace, tabs and newlines included
Strip(s) == RStrip(LStrip(s))

\* str.split(sep) for a one-character separator
RECURSIVE Split(_, _)
Split(s, sep) ==
    IF \E n \in 1..Len(s) : s[n] = sep
    THEN LET n == CHOOSE n \in 1..Len(s) :
                     s[n] = sep /\ \A m \in 1..(n - 1) : s[m] # sep
         IN <<SubSeq(s, 1, n - 1)>> \o Split(SubSeq(s, n + 1, Len(s)), sep)
    ELSE <<s>>

\* endswith with the dot of the suffix forgotten
EndsWith_NoDot(s, suffix) ==
    /\ Len(s) >= Len(suffix) - 1
    /\ SubSeq(s, Len(s) - Len(suffix) + 2, Len(s)) = Tail(suffix)

\* str.endswith(suffix)
EndsWith(s, suffix) ==
    /\ Len(s) >= Len(suffix)
    /\ SubSeq(s, Len(s) - Len(suffix) + 1, Len(s)) = suffix

RECURSIVE DigitsVal(_)
DigitsVal(ds) ==
    IF ds = <<>> THEN 0
    ELSE 10 * DigitsVal(SubSeq(ds, 1, Len(ds) - 1)) + DigitVal(ds[Len(ds)])

\* float(text) succeeds: surrounding whitespace is ignored, then digits with
\* at most one decimal point and at least one digit.  (Signs, exponents, inf
\* and nan are outside the alphabet explored here.)
IsFloat(text) ==
    LET t == Strip(text)
        parts == Split(t, ".")
    IN /\ t # <<>>
       /\ \A n \in 1..Len(t) : IsDigit(t[n]) \/ t[n] = "."
       /\ Len(parts) <= 2
       /\ \E n \in 1..Len(t) : IsDigit(t[n])

\* float(text) as a count of thousandths (percent identity has 3 decimals)
FloatOf(text) ==
    LET parts == Split(Strip(text), ".")
        frac == IF Len(parts) = 2 THEN parts[2] ELSE <<>>
        frac3 == SubSeq(frac \o <<"0", "0", "0">>, 1, 3)
    IN 1000 * DigitsVal(parts[1]) + DigitsVal(frac3)

RECURSIVE NatToChars(_)
NatToChars(n) ==
    IF n < 10 THEN <<DigitChars[n + 1]>>
    ELSE NatToChars(n \div 10) \o <<DigitChars[(n % 10) + 1]>>

\* f"{top_identity:.3f}" of a value held in thousandths
Format3f(v) ==
    NatToChars(v \div 1000) \o <<".">> \o
    <<DigitChars[((v \div 100) % 10) + 1],
      DigitChars[((v \div 10) % 10) + 1],
      DigitChars[(v % 10) + 1]>>

(* ---------------- parse_blast_result ---------------- *)
\* (None, None) is [status |-> "ok", hit |-> FALSE]; an exception is a status
ParseBlastResult(blast_result) ==
    IF Strip(blast_result) = <<>>
    THEN [status |-> "ok", hit |-> FALSE]
    ELSE LET best_hit == Split(Split(Strip(blast_result), "\n")[1], "\t")
         IN IF Len(best_hit) < 3 THEN [status |-> "IndexError"]
            ELSE IF ~IsFloat(best_hit[3]) THEN [status |-> "ValueError"]
            ELSE [status |-> "ok", hit |-> TRUE,
                  identity |-> FloatOf(best_hit[3]), subject |-> best_hit[2]]

(* ---------------- dict(pair.split(":") for pair in args.databases) ------- *)
\* a dict is a sequence of <<key, value>> in insertion order; assigning to an
\* existing key keeps its position and replaces its value
DictSet(d, k, v) ==
    IF \E n \in 1..Len(d) : d[n][1] = k
    THEN [n \in 1..Len(d) |-> IF d[n][1] = k THEN <<k, v>> ELSE d[n]]
    ELSE Append(d, <<k, v>>)

RECURSIVE DictFrom(_, _)
DictFrom(d, pairs) ==
    IF pairs = <<>> THEN d
    ELSE DictFrom(DictSet(d, Head(pairs)[1], Head(pairs)[2]), Tail(pairs))

SpeciesDbs(argv) == DictFrom(<<>>, argv)

(* ---------------- selection ---------------- *)
\* the filter written as a truth test: "if data[0]" also drops identity 0.0
ValidResults_Truthy(res) ==
    SelectSeq(res, LAMBDA r : r.parsed.hit /\ r.parsed.identity # 0)

\* valid_results = {sp: data for sp, data in results.items() if data[0] is not None}
ValidResults(res) == SelectSeq(res, LAMBDA r : r.parsed.hit)

\* the first item taken without comparing
PyMax_First(items) == items[1]

\* a maximum that keeps the last of equal items (a ">=" scan)
PyMax_LastMax(items) ==
    items[CHOOSE n \in 1..Len(items) :
            /\ \A m \in 1..Len(items) : items[m].parsed.identity <= items[n].parsed.identity
            /\ \A m \in (n + 1)..Len(items) : items[m].parsed.identity < items[n].parsed.identity]

\* max(valid_results.items(), key=lambda x: x[1][0]): the first item, in
\* iteration order, whose key is not exceeded by any other
PyMax(items) ==
    items[CHOOSE n \in 1..Len(items) :
            /\ \A m \in 1..Len(items) : items[m].parsed.identity <= items[n].parsed.identity
            /\ \A m \in 1..(n - 1) : items[m].parsed.identity < items[n].parsed.identity]

(* ---------------- inputs explored ---------------- *)
Suffix == <<".", "f", "a">>

\* two names with the suffix, one that ends in "fa" without the dot
FileNames ==
    { <<"a", ".", "f", "a">>, <<"b", ".", "f", "a">>, <<"n", "f", "a">> }

\* label:path arguments; one label is offered with two paths
DbPairs == { <<"spA", "db1">>, <<"spB", "db2">>, <<"spA", "db3">> }

\* what blastn may leave in its -out file: nothing, blank, a hit of identity
\* 0.0, a hit of identity 9.5, a row whose identity column is not a number
RawOutputs ==
    { <<>>,
      <<"\n">>,
      <<"q", "\t", "s", "\t", "0", ".", "0", "\n">>,
      <<"q", "\t", "s", "\t", "9", ".", "5", "\n">>,
      <<"q", "\t", "s", "\t", "x", "\n">> }

SeqsUpTo(S, n) == UNION { [1..k -> S] : k \in 0..n }

Distinct(s) == \A a, b \in 1..Len(s) : a # b => s[a] # s[b]

Listings == { s \in SeqsUpTo(FileNames, MaxFiles) : Distinct(s) }

DatabaseArgs == { s \in SeqsUpTo(DbPairs, MaxDbs) : Len(s) >= 1 }

\* tables handed to parse_blast_result on its own: any first row over Fields,
\* followed by up to MaxRows - 1 further rows
Fields == { <<>>, <<"q">>, <<"7">>, <<"4", ".", "2">>, <<" ">> }

FirstRows == { r \in SeqsUpTo(Fields, MaxFields) : Len(r) >= 1 }

LaterRows == { <<<<"q">>, <<"q">>, <<"7">>>>, <<<<>>>>, <<<<"q">>>> }

Tables == { <<r>> \o t : r \in FirstRows, t \in SeqsUpTo(LaterRows, MaxRows - 1) }

RECURSIVE Join(_, _)
Join(parts, sep) ==
    IF Len(parts) = 0 THEN <<>>
    ELSE IF Len(parts) = 1 THEN parts[1]
    ELSE parts[1] \o <<sep>> \o Join(Tail(parts), sep)

\* the text of a table: fields joined by tabs, rows joined by newlines
TableText(t) == Join([n \in 1..Len(t) |-> Join(t[n], "\t")], "\n")

(* ---------------- state ---------------- *)
VARIABLES
    databases,      \* args.databases as <<label, path>> pairs
    listing,        \* os.listdir(fasta_directory)
    species_dbs,    \* the dict built from args.databases
    pc,             \* where main() is: start, files, blast, done, aborted, idle
    i,              \* position of the outer for loop in listing
    j,              \* position of the inner for loop in species_dbs
    results,        \* results dict of the current sample, in insertion order
    summary_file,   \* lines of blast_summary_results.txt (the detail report)
    species_file,   \* lines of species_summary.txt
    sample_count,
    stdout,         \* lines printed
    tmp_files,      \* temporary files that exist
    tmp_created,    \* how many temporary files run_blast has created
    trace,          \* aligner invocations and file writes, in order
    tab_rows,       \* table whose text is handed to parse_blast_result
    parsed          \* what parse_blast_result returned for it

vars == <<databases, listing, species_dbs, pc, i, j, results, summary_file,
          species_file, sample_count, stdout, tmp_files, tmp_created, trace,
          tab_rows, parsed>>

config == <<databases, listing, species_dbs>>
parser == <<tab_rows, parsed>>

NotParsed == [status |-> "none"]

DetailHeader ==
    << [kind |-> "title"], [kind |-> "columns"] >>

SpeciesHeader == [kind |-> "header"]

NoMatch == "No Match"
NA == <<"N", "/", "A">>

SpeciesRow(sample, species, identity) ==
    [kind |-> "row", sample |-> sample, species |-> species, identity |-> identity]

Section(sample, species, raw) ==
    [kind |-> "section", sample |-> sample, species |-> species, raw |-> raw]

Init ==
    /\ databases \in DatabaseArgs
    /\ listing \in Listings
    /\ species_dbs = SpeciesDbs(databases)
    /\ pc = "start"
    /\ i = 1
    /\ j = 1
    /\ results = <<>>
    /\ summary_file = <<>>
    /\ species_file = <<>>
    /\ sample_count = 0
    /\ stdout = <<>>
    /\ tmp_files = {}
    /\ tmp_created = 0
    /\ trace = <<>>
    /\ tab_rows = <<>>
    /\ parsed = NotParsed

(* ---------------- main() ---------------- *)
\* lines 104-115: counter reset, both files opened and their headers written
OpenOutputs ==
    /\ pc = "start"
    /\ sample_count' = 0
    /\ summary_file' = DetailHeader
    /\ species_file' = <<SpeciesHeader>>
    /\ pc' = "files"
    /\ UNCHANGED <<config, parser, i, j, results, stdout, tmp_files, tmp_created, trace>>

\* lines 118-120: an entry that does not end in ".fa" is passed over
SkipFile ==
    /\ pc = "files"
    /\ i <= Len(listing)
    /\ ~EndsWith(listing[i], Suffix)
    /\ i' = i + 1
    /\ UNCHANGED <<config, parser, pc, j, results, summary_file, species_file,
                   sample_count, stdout, tmp_files, tmp_created, trace>>

\* lines 120-126: a ".fa" entry starts a fresh results dict
BeginSample ==
    /\ pc = "files"
    /\ i <= Len(listing)
    /\ EndsWith(listing[i], Suffix)
    /\ results' = <<>>
    /\ j' = 1
    /\ pc' = "blast"
    /\ UNCHANGED <<config, parser, i, summary_file, species_file, sample_count,
                   stdout, tmp_files, tmp_created, trace>>

Running(sample, species) == [kind |-> "running", sample |-> sample, species |-> species]

Call(sample, species, db, exit, out) ==
    [ev |-> "align", sample |-> sample, species |-> species, db |-> db,
     exit |-> exit, out |-> out]

\* lines 128-135 with run_blast lines 23-47: blastn exits 0 having written
\* out, the temporary file is read and removed, the text parses
BlastOk(out) ==
    /\ pc = "blast"
    /\ j <= Len(species_dbs)
    /\ ParseBlastResult(out).status = "ok"
    /\ stdout' = Append(stdout, Running(listing[i], species_dbs[j][1]))
    /\ tmp_created' = tmp_created + 1
    /\ tmp_files' = (tmp_files \cup {tmp_created + 1}) \ {tmp_created + 1}
    /\ trace' = Append(trace, Call(listing[i], species_dbs[j][1], species_dbs[j][2], 0, out))
    /\ results' = Append(results, [species |-> species_dbs[j][1],
                                    parsed |-> ParseBlastResult(out),
                                    raw |-> out])
    /\ j' = j + 1
    /\ UNCHANGED <<config, parser, pc, i, summary_file, species_file, sample_count>>

\* lines 131-132: blastn exits 0 but float() or the column index raises
BlastParseError(out) ==
    /\ pc = "blast"
    /\ j <= Len(species_dbs)
    /\ ParseBlastResult(out).status # "ok"
    /\ stdout' = Append(stdout, Running(listing[i], species_dbs[j][1]))
    /\ tmp_created' = tmp_created + 1
    /\ tmp_files' = (tmp_files \cup {tmp_created + 1}) \ {tmp_created + 1}
    /\ trace' = Append(trace, Call(listing[i], species_dbs[j][1], species_dbs[j][2], 0, out))
    /\ pc' = "aborted"
    /\ UNCHANGED <<config, parser, i, j, results, summary_file, species_file, sample_count>>

\* a failed invocation caught and treated as "no hit"
BlastFail_Swallowed ==
    /\ pc = "blast"
    /\ j <= Len(species_dbs)
    /\ stdout' = Append(stdout, Running(listing[i], species_dbs[j][1]))
    /\ tmp_created' = tmp_created + 1
    /\ tmp_files' = tmp_files \cup {tmp_created + 1}
    /\ trace' = Append(trace, Call(listing[i], species_dbs[j][1], species_dbs[j][2], 1, <<>>))
    /\ results' = Append(results, [species |-> species_dbs[j][1],
                                    parsed |-> [status |-> "ok", hit |-> FALSE],
                                    raw |-> <<>>])
    /\ j' = j + 1
    /\ UNCHANGED <<config, parser, pc, i, summary_file, species_file, sample_count>>

\* lines 23-37: blastn exits non-zero, subprocess.run(check=True) raises
\* before the read and the os.remove of lines 40-44
BlastFail ==
    /\ pc = "blast"
    /\ j <= Len(species_dbs)
    /\ stdout' = Append(stdout, Running(listing[i], species_dbs[j][1]))
    /\ tmp_created' = tmp_created + 1
    /\ tmp_files' = tmp_files \cup {tmp_created + 1}
    /\ trace' = Append(trace, Call(listing[i], species_dbs[j][1], species_dbs[j][2], 1, <<>>))
    /\ pc' = "aborted"
    /\ UNCHANGED <<config, parser, i, j, results, summary_file, species_file, sample_count>>

Wrote(what, sample, species) == [ev |-> what, sample |-> sample, species |-> species]

\* lines 138-143: no valid result, the "No Match" row is written and the
\* loop continues with the next entry
WriteNoMatch ==
    /\ pc = "blast"
    /\ j > Len(species_dbs)
    /\ ValidResults(results) = <<>>
    /\ species_file' = Append(species_file, SpeciesRow(listing[i], NoMatch, NA))
    /\ trace' = Append(trace, Wrote("row", listing[i], NoMatch))
    /\ i' = i + 1
    /\ pc' = "files"
    /\ UNCHANGED <<config, parser, j, results, summary_file, sample_count, stdout,
                   tmp_files, tmp_created>>

\* selection and writing run inside the database loop, after the first database
WriteMatch_Early ==
    /\ pc = "blast"
    /\ j > 1
    /\ ValidResults(results) # <<>>
    /\ LET top == PyMax(ValidResults(results))
       IN /\ species_file' = Append(species_file,
                 SpeciesRow(listing[i], top.species, Format3f(top.parsed.identity)))
          /\ trace' = Append(trace, Wrote("row", listing[i], top.species)) \o
                 [n \in 1..Len(results) |-> Wrote("section", listing[i], results[n].species)]
    /\ summary_file' = summary_file \o
           [n \in 1..Len(results) |-> Section(listing[i], results[n].species, results[n].raw)]
    /\ stdout' = Append(stdout, [kind |-> "completed", sample |-> listing[i]])
    /\ sample_count' = sample_count + 1
    /\ i' = i + 1
    /\ pc' = "files"
    /\ UNCHANGED <<config, parser, j, results, tmp_files, tmp_created>>

\* lines 146-159: the winner's row, then one section per checked database,
\* then the counter
WriteMatch ==
    /\ pc = "blast"
    /\ j > Len(species_dbs)
    /\ ValidResults(results) # <<>>
    /\ LET top == PyMax(ValidResults(results))
       IN /\ species_file' = Append(species_file,
                 SpeciesRow(listing[i], top.species, Format3f(top.parsed.identity)))
          /\ trace' = Append(trace, Wrote("row", listing[i], top.species)) \o
                 [n \in 1..Len(results) |-> Wrote("section", listing[i], results[n].species)]
    /\ summary_file' = summary_file \o
           [n \in 1..Len(results) |-> Section(listing[i], results[n].species, results[n].raw)]
    /\ stdout' = Append(stdout, [kind |-> "completed", sample |-> listing[i]])
    /\ sample_count' = sample_count + 1
    /\ i' = i + 1
    /\ pc' = "files"
    /\ UNCHANGED <<config, parser, j, results, tmp_files, tmp_created>>

\* lines 161-163: the loop is over, the files are closed, the count is printed
Finish ==
    /\ pc = "files"
    /\ i > Len(listing)
    /\ stdout' = Append(stdout, [kind |-> "processed", count |-> sample_count])
    /\ pc' = "done"
    /\ UNCHANGED <<config, parser, i, j, results, summary_file, species_file,
                   sample_count, tmp_files, tmp_created, trace>>

Next ==
    \/ OpenOutputs
    \/ SkipFile
    \/ BeginSample
    \/ \E out \in RawOutputs : BlastOk(out)
    \/ \E out \in RawOutputs : BlastParseError(out)
    \/ BlastFail
    \/ WriteNoMatch
    \/ WriteMatch
    \/ Finish

Spec == Init /\ [][Next]_vars

(* ---------------- parse_blast_result on its own ---------------- *)
InitParse ==
    /\ databases = <<>>
    /\ listing = <<>>
    /\ species_dbs = <<>>
    /\ pc = "idle"
    /\ i = 1
    /\ j = 1
    /\ results = <<>>
    /\ summary_file = <<>>
    /\ species_file = <<>>
    /\ sample_count = 0
    /\ stdout = <<>>
    /\ tmp_files = {}
    /\ tmp_created = 0
    /\ trace = <<>>
    /\ tab_rows \in Tables
    /\ parsed = NotParsed

Parse ==
    /\ parsed = NotParsed
    /\ parsed' = ParseBlastResult(TableText(tab_rows))
    /\ UNCHANGED <<config, pc, i, j, results, summary_file, species_file,
                   sample_count, stdout, tmp_files, tmp_created, trace, tab_rows>>

NextParse == Parse

SpecParse == InitParse /\ [][NextParse]_vars

(* ---------------- vocabulary of the properties ---------------- *)
\* the name carries the recognized suffix, read off its last three characters
HasFaSuffix(name) ==
    /\ Len(name) >= 3
    /\ name[Len(name) - 2] = "."
    /\ name[Len(name) - 1] = "f"
    /\ name[Len(name)] = "a"

FaFiles == SelectSeq(listing, HasFaSuffix)

\* the data rows of species_summary.txt
DataRows == SubSeq(species_file, 2, Len(species_file))

\* the sections of blast_summary_results.txt
Sections == SubSeq(summary_file, Len(DetailHeader) + 1, Len(summary_file))

\* aligner invocations made for a sample, in order
CallsOf(sample) ==
    SelectSeq(trace, LAMBDA e : e.ev = "align" /\ e.sample = sample)

IsBlank(out) == \A n \in 1..Len(out) : out[n] \in Whitespace

\* invocations of a sample that returned a hit
HitsOf(sample) ==
    SelectSeq(CallsOf(sample), LAMBDA e : e.exit = 0 /\ ~IsBlank(e.out))

AllNoHit(sample) == HitsOf(sample) = <<>>

\* percent identity column of the first row of a hit, in thousandths
HitIdentity(out) == FloatOf(Split(Split(out, "\n")[1], "\t")[3])

\* the hits of a sample as (species, identity), in invocation order
HitValues(sample) ==
    LET hits == HitsOf(sample)
    IN [n \in 1..Len(hits) |->
          [species |-> hits[n].species, identity |-> HitIdentity(hits[n].out)]]

MaxOf(hv) ==
    CHOOSE v \in { hv[n].identity : n \in 1..Len(hv) } :
        \A n \in 1..Len(hv) : hv[n].identity <= v

\* labels whose database returned a hit of the maximum identity
WinnersOf(hv) ==
    LET mx == MaxOf(hv)
    IN { hv[n].species : n \in { m \in 1..Len(hv) : hv[m].identity = mx } }

\* first position of a label in the --databases argument list
FirstPos(label) ==
    CHOOSE n \in 1..Len(databases) :
        /\ databases[n][1] = label
        /\ \A m \in 1..(n - 1) : databases[m][1] # label

ConfiguredLabels == { databases[n][1] : n \in 1..Len(databases) }

(* ---------------- C1 ---------------- *)
\* C1: when main() finishes without an aligner or parse failure, the species
\* summary is the header followed by exactly one row per ".fa" entry; the
\* row is (sample, "No Match", "N/A") exactly when every database returned
\* blank output for the sample, and otherwise names a database that
\* returned a hit together with that hit's identity (0.0 included).
C1_OneRowPerSample ==
    pc = "done" =>
        /\ Len(species_file) = 1 + Len(FaFiles)
        /\ species_file[1] = SpeciesHeader
        /\ \A n \in 1..Len(FaFiles) :
             LET row == species_file[n + 1]
                 hits == HitsOf(FaFiles[n])
             IN /\ row.kind = "row"
                /\ row.sample = FaFiles[n]
                /\ (row.species = NoMatch /\ row.identity = NA) <=> AllNoHit(FaFiles[n])
                /\ ~AllNoHit(FaFiles[n]) =>
                     \E m \in 1..Len(hits) :
                        /\ row.species = hits[m].species
                        /\ row.identity = Format3f(HitIdentity(hits[m].out))

\* a finished run with a "No Match" row and a row won by a hit of identity 0.0
C1_Witness ==
    /\ pc = "done"
    /\ \E n \in 1..Len(DataRows) : DataRows[n].species = NoMatch
    /\ \E n \in 1..Len(DataRows) : DataRows[n].identity = <<"0", ".", "0", "0", "0">>

(* ---------------- C2 ---------------- *)
\* C2: every row that names a species names a database whose identity is the
\* maximum over the sample's hits, and the identity written is that maximum;
\* a database that returned no hit never wins.
C2_WinnerHasMaxIdentity ==
    \A n \in 1..Len(DataRows) :
        LET row == DataRows[n]
            hv == HitValues(row.sample)
        IN hv # <<>> =>
             /\ row.species \in WinnersOf(hv)
             /\ row.identity = Format3f(MaxOf(hv))

\* a row won by the second database, whose hit beats the first one's hit
C2_Witness ==
    \E n \in 1..Len(DataRows) :
        LET hits == HitsOf(DataRows[n].sample)
        IN /\ Len(hits) = 2
           /\ HitIdentity(hits[1].out) < HitIdentity(hits[2].out)
           /\ DataRows[n].species = hits[2].species
           /\ Len(CallsOf(DataRows[n].sample)) = 2

(* ---------------- C10 ---------------- *)
\* C10: when several databases share the maximum identity of a sample, the
\* species written is the one that comes first in the configured order.
C10_TieGoesToFirstConfigured ==
    \A n \in 1..Len(DataRows) :
        LET row == DataRows[n]
            hv == HitValues(row.sample)
        IN hv # <<>> =>
             /\ row.species \in ConfiguredLabels
             /\ \A w \in WinnersOf(hv) : FirstPos(row.species) <= FirstPos(w)

\* a row written for a sample on which two databases tie at the maximum
C10_Witness ==
    \E n \in 1..Len(DataRows) :
        LET w == WinnersOf(HitValues(DataRows[n].sample))
        IN Cardinality(w) = 2 /\ DataRows[n].species \in w

(* ---------------- C3 ---------------- *)
\* C3: in a completed run the detail report holds, for every processed
\* sample and every database checked for it, one section labelled with the
\* sample and the species and carrying the raw aligner output, samples with
\* no hit at all included, grouped per sample in configuration order.
C3_SectionForEveryInvocation ==
    pc = "done" =>
        LET calls == SelectSeq(trace, LAMBDA e : e.ev = "align")
        IN Sections = [n \in 1..Len(calls) |->
                          Section(calls[n].sample, calls[n].species, calls[n].out)]

(* ---------------- C4 ---------------- *)
Failures == { p \in 1..Len(trace) : trace[p].ev = "align" /\ trace[p].exit # 0 }

\* the ".fa" entries listed before an entry
FaFilesBefore(sample) ==
    LET p == CHOOSE n \in 1..Len(FaFiles) : FaFiles[n] = sample
    IN SubSeq(FaFiles, 1, p - 1)

AbortedCleanly ==
    \A p \in Failures :
        /\ p = Len(trace)
        /\ pc = "aborted"
        /\ species_file[1] = SpeciesHeader
        /\ [n \in 1..Len(DataRows) |-> DataRows[n].sample] = FaFilesBefore(trace[p].sample)

\* C4: a non-zero aligner exit aborts the run: nothing is invoked or written
\* after it, the summary has no row for the failing sample or a later one,
\* and the header and the rows of the samples completed before it stay as
\* they were.
C4_FailureAborts ==
    /\ []AbortedCleanly
    /\ [][/\ pc' = "aborted" =>
               species_file' = species_file /\ summary_file' = summary_file
          /\ pc # "aborted"]_vars

\* the aligner failed on the second sample, after the first one's row was written
C4_Witness ==
    /\ pc = "aborted"
    /\ Failures # {}
    /\ Len(DataRows) = 1

(* ---------------- C5 ---------------- *)
\* C5: at the end of a completed run the count printed equals the number of
\* samples for which a summary row was written, "No Match" rows included.
C5_CountEqualsRows ==
    pc = "done" => stdout[Len(stdout)].count = Len(DataRows)

(* ---------------- C6 ---------------- *)
Mentions(name) ==
    \/ \E n \in 1..Len(trace) : trace[n].sample = name
    \/ \E n \in 1..Len(DataRows) : DataRows[n].sample = name
    \/ \E n \in 1..Len(Sections) : Sections[n].sample = name
    \/ \E n \in 1..Len(stdout) :
          stdout[n].kind \in {"running", "completed"} /\ stdout[n].sample = name

\* C6: an entry whose name does not end in ".fa" is passed over: the step
\* taken at it only advances the loop, and no invocation, row, section or
\* progress line ever names it.
C6_OtherEntriesSkipped ==
    /\ [](\A n \in 1..Len(listing) : ~HasFaSuffix(listing[n]) => ~Mentions(listing[n]))
    /\ [][(pc = "files" /\ i <= Len(listing) /\ ~HasFaSuffix(listing[i])) =>
             /\ i' = i + 1
             /\ UNCHANGED <<config, parser, pc, j, results, summary_file, species_file,
                            sample_count, stdout, tmp_files, tmp_created, trace>>]_vars

\* a finished run over a listing with a skipped entry ahead of a processed one
C6_Witness ==
    /\ pc = "done"
    /\ Len(listing) = 2
    /\ ~HasFaSuffix(listing[1])
    /\ HasFaSuffix(listing[2])
    /\ Len(DataRows) = 1

(* ---------------- C7 ---------------- *)
\* C7: for a non-blank table whose first row has a numeric third field,
\* parse_blast_result returns that number and the first row's second field,
\* whatever the later rows and the other fields of the first row hold.
C7_FirstRowColumns ==
    (/\ parsed # NotParsed
     /\ ~IsBlank(TableText(tab_rows))
     /\ Len(tab_rows[1]) >= 3
     /\ IsFloat(tab_rows[1][3]))
    => /\ parsed.status = "ok"
       /\ parsed.hit
       /\ parsed.identity = FloatOf(tab_rows[1][3])
       /\ parsed.subject = tab_rows[1][2]

(* ---------------- C8 ---------------- *)
EventsOf(sample) == SelectSeq(trace, LAMBDA e : e.sample = sample)

RowEvents == SelectSeq(trace, LAMBDA e : e.ev = "row")

\* C8: the events of one sample are contiguous, follow the listing order of
\* the samples, and read: one invocation per configured database in
\* configuration order, each one finished, then the summary row, then the
\* sections; the rows of the summary file are these row events.
C8_SequentialPerSample ==
    /\ \A q \in 2..Len(trace) :
          trace[q].sample # trace[q - 1].sample =>
              \A p \in 1..(q - 1) : trace[p].sample # trace[q].sample
    /\ \A s \in { trace[p].sample : p \in 1..Len(trace) } :
          LET evs == EventsOf(s)
              K == Len(species_dbs)
          IN \A k \in 1..Len(evs) :
                /\ k <= K => /\ evs[k].ev = "align"
                             /\ evs[k].species = species_dbs[k][1]
                             /\ evs[k].db = species_dbs[k][2]
                             /\ k < Len(evs) => evs[k].exit = 0
                /\ k = K + 1 => evs[k].ev = "row"
                /\ k > K + 1 => evs[k].ev = "section"
    /\ [n \in 1..Len(RowEvents) |-> RowEvents[n].sample]
          = [n \in 1..Len(DataRows) |-> DataRows[n].sample]
    /\ \A n \in 1..Len(DataRows) : DataRows[n].sample = FaFiles[n]

\* a finished run of two samples against two databases
C8_Witness ==
    /\ pc = "done"
    /\ Len(species_dbs) = 2
    /\ Len(DataRows) = 2
    /\ Len(SelectSeq(trace, LAMBDA e : e.ev = "align")) = 4

(* ---------------- C9 ---------------- *)
\* C9: once a call of run_blast has ended, by return or by error, the
\* temporary file it created no longer exists.
C9_NoTemporaryFileLeft == tmp_files = {}

====
